---- MODULE Spec2Model ----
(***************************************************************************)
(* Plottable: the observable DataSource (src/dataSource.ts), the           *)
(* HorizontalLegend layout and rendering (src/components/                  *)
(* horizontalLegend.ts) and the XDragBoxLayer exercised by the tests in    *)
(* unnamed/part_000.                                                       *)
(***************************************************************************)
EXTENDS Integers, Sequences, FiniteSets, TLC

(***************************************************************************)
(* JavaScript values that are not numbers or containers.                   *)
(***************************************************************************)
Null == "null"
Undefined == "undefined"
This == "this"
None == "none"

\* ------------------------------------------------------------------------
\* Bounds
\* ------------------------------------------------------------------------
MaxBroadcasts == 3
MaxOfferedWidth == 22
MinOfferedHeight == 9
MaxOfferedHeight == 11
MaxDomainLen == 3
MaxX == 3
MaxY == 2

VARIABLES
  \* DataSource
  _data, _metadata,      \* the private fields
  listeners,             \* Broadcaster: the registered listeners
  heard,                 \* what each listener read from data()/metadata() when last notified
  broadcasts,            \* number of _broadcast() invocations so far
  ret,                   \* value returned by the last DataSource call
  dsCall,                \* the last DataSource call: [op, arg]
  ctorArgs,              \* the constructor's effective arguments
  lastSet                \* the argument of the most recent data(d) / metadata(m) setter call

VARIABLES
  \* HorizontalLegend
  domain,                \* scale.domain(): the entries of the color scale, in order
  listening,             \* the legend is registered with scale.broadcaster
  anchored,              \* the legend has not been removed
  textHeight,
  entryLengths,          \* entry -> width
  rows,                  \* list of lists of entries; <<>> while still undefined
  previousOfferedWidth,  \* <<w>>, or <<>> for undefined / null
  numRowsToDraw,
  request,               \* the ISpaceRequest returned by the last _requestedSpace
  drawn,                 \* the rendered g.legend-row elements and their g.legend-entry children
  legendCall             \* the last legend operation

legendVars == <<domain, listening, anchored, textHeight, entryLengths, rows,
                previousOfferedWidth, numRowsToDraw, request, drawn, legendCall>>

VARIABLES
  \* XDragBoxLayer
  boxBounds,             \* bounds(): [topLeft |-> [x, y], bottomRight |-> [x, y]]
  dblHeight,             \* height() of the component
  isResizable, isMovable,
  dblCall                \* the last operation on the layer

dragVars == <<boxBounds, dblHeight, isResizable, isMovable, dblCall>>

dsVars == <<_data, _metadata, listeners, heard, broadcasts, ret, dsCall, ctorArgs, lastSet>>

\* ------------------------------------------------------------------------
\* DataSource
\* ------------------------------------------------------------------------
DataValues == {"[]", "[1]", "[1,2]"}
MetadataValues == {"{}", "{a:1}"}
Listeners == {"l1", "l2"}

\* `x == null` in JavaScript: true of null and of undefined
IsNullish(x) == x \in {Null, Undefined}

\* a default parameter applies when the argument is undefined (not when it is null)
DefaultParam(arg, dflt) == IF arg = Undefined THEN dflt ELSE arg

DataSourceInit ==
  \E d \in DataValues \cup {Undefined, Null}, m \in MetadataValues \cup {Undefined, Null} :
    /\ _data = DefaultParam(d, "[]")
    /\ _metadata = DefaultParam(m, "{}")
    /\ ctorArgs = [data |-> DefaultParam(d, "[]"), metadata |-> DefaultParam(m, "{}")]
    /\ listeners = {}
    /\ heard = [l \in Listeners |-> [data |-> None, metadata |-> None]]
    /\ broadcasts = 0
    /\ ret = None
    /\ dsCall = [op |-> "new", arg |-> Undefined]
    /\ lastSet = [data |-> None, metadata |-> None]

\* Broadcaster.registerListener / deregisterListener
registerListener(l) ==
  /\ l \notin listeners
  /\ listeners' = listeners \cup {l}
  /\ UNCHANGED <<_data, _metadata, heard, broadcasts, ret, dsCall, ctorArgs, lastSet>>

deregisterListener(l) ==
  /\ l \in listeners
  /\ listeners' = listeners \ {l}
  /\ UNCHANGED <<_data, _metadata, heard, broadcasts, ret, dsCall, ctorArgs, lastSet>>

\* Broadcaster._broadcast(): every registered listener is called and reads the
\* fields as they are at the time of the call (d, m).
_broadcast(d, m) ==
  /\ broadcasts' = broadcasts + 1
  /\ heard' = [l \in Listeners |->
                 IF l \in listeners THEN [data |-> d, metadata |-> m] ELSE heard[l]]

\* DataSource.data(data?)
dataBroadcastsFirst(d) ==
  /\ dsCall' = [op |-> "data", arg |-> d]
  /\ IF IsNullish(d)
       THEN /\ ret' = _data
            /\ UNCHANGED <<_data, _metadata, heard, broadcasts, lastSet>>
       ELSE /\ broadcasts < MaxBroadcasts
            /\ _broadcast(_data, _metadata)
            /\ _data' = d
            /\ ret' = This
            /\ lastSet' = [lastSet EXCEPT !.data = d]
            /\ UNCHANGED _metadata
  /\ UNCHANGED <<listeners, ctorArgs>>

dataClobbersMetadata(d) ==
  /\ dsCall' = [op |-> "data", arg |-> d]
  /\ IF IsNullish(d)
       THEN /\ ret' = _data
            /\ UNCHANGED <<_data, _metadata, heard, broadcasts, lastSet>>
       ELSE /\ broadcasts < MaxBroadcasts
            /\ _data' = d
            /\ _metadata' = "{}"
            /\ _broadcast(d, "{}")
            /\ ret' = This
            /\ lastSet' = [lastSet EXCEPT !.data = d]
  /\ UNCHANGED <<listeners, ctorArgs>>

data(d) ==
  /\ dsCall' = [op |-> "data", arg |-> d]
  /\ IF IsNullish(d)
       THEN /\ ret' = _data
            /\ UNCHANGED <<_data, _metadata, heard, broadcasts, lastSet>>
       ELSE /\ broadcasts < MaxBroadcasts
            /\ _data' = d
            /\ _broadcast(d, _metadata)
            /\ ret' = This
            /\ lastSet' = [lastSet EXCEPT !.data = d]
            /\ UNCHANGED _metadata
  /\ UNCHANGED <<listeners, ctorArgs>>

\* DataSource.metadata(metadata?)
metadata(m) ==
  /\ dsCall' = [op |-> "metadata", arg |-> m]
  /\ IF IsNullish(m)
       THEN /\ ret' = _metadata
            /\ UNCHANGED <<_data, _metadata, heard, broadcasts, lastSet>>
       ELSE /\ broadcasts < MaxBroadcasts
            /\ _metadata' = m
            /\ _broadcast(_data, m)
            /\ ret' = This
            /\ lastSet' = [lastSet EXCEPT !.metadata = m]
            /\ UNCHANGED _data
  /\ UNCHANGED <<listeners, ctorArgs>>

DataCall ==
  /\ \E d \in DataValues \cup {Undefined, Null} : data(d)
  /\ UNCHANGED <<legendVars, dragVars>>
MetadataCall ==
  /\ \E m \in MetadataValues \cup {Undefined, Null} : metadata(m)
  /\ UNCHANGED <<legendVars, dragVars>>
Register ==
  /\ \E l \in Listeners : registerListener(l)
  /\ UNCHANGED <<legendVars, dragVars>>
Deregister ==
  /\ \E l \in Listeners : deregisterListener(l)
  /\ UNCHANGED <<legendVars, dragVars>>

DataSourceNext == DataCall \/ MetadataCall \/ Register \/ Deregister

\* ------------------------------------------------------------------------
\* HorizontalLegend
\* ------------------------------------------------------------------------
padding == 5

\* JavaScript numbers that may be non-finite
Num(n) == [kind |-> "number", val |-> n]
NegInfinity == [kind |-> "-Infinity", val |-> 0]
NaN == [kind |-> "NaN", val |-> 0]

Max(a, b) == IF a > b THEN a ELSE b
Min(a, b) == IF a < b THEN a ELSE b

\* the labels of the color scale and their number of characters
Entries == {"a", "bb", "cccc"}
Chars == [a |-> 1, bb |-> 2, cccc |-> 4]

\* Util.Text.getTextMeasurer: the size of a text in the legend's font.  A
\* measurer on an element that is not displayed measures 0 for everything.
Fonts == {[height |-> 0, charWidth |-> 0], [height |-> 1, charWidth |-> 1]}
measure(font, e) == [width |-> font.charWidth * Chars[e], height |-> font.height]

Range(f) == {f[i] : i \in DOMAIN f}

\* the domains of an ordinal scale: sequences of distinct entries
Domains ==
  {d \in UNION {[1..n -> Entries] : n \in 0..MaxDomainLen} :
     \A i, j \in DOMAIN d : i # j => d[i] # d[j]}

RECURSIVE SumLengths(_, _)
\* d3.sum(row, entry => entryLengths[entry])
SumLengths(row, lengths) ==
  IF row = <<>> THEN 0 ELSE lengths[Head(row)] + SumLengths(Tail(row), lengths)

RECURSIVE MaxOf(_)
\* d3.max over a non-empty list of numbers
MaxOf(xs) ==
  IF Len(xs) = 1 THEN xs[1] ELSE Max(Head(xs), MaxOf(Tail(xs)))

\* sizeEntries: the width of every entry of the domain
sizeEntriesNoClamp(dom, font, availableWidth) ==
  [e \in Range(dom) |-> font.height + measure(font, e).width + padding]

sizeEntries(dom, font, availableWidth) ==
  [e \in Range(dom) |->
     Min(font.height + measure(font, e).width + padding, availableWidth)]

RECURSIVE packFromForgetsFirst(_, _, _, _, _)
packFromForgetsFirst(dom, lengths, availableWidth, rs, spaceLeft) ==
  IF dom = <<>> THEN rs
  ELSE LET e == Head(dom)
           entryLength == lengths[e]
       IN IF entryLength > spaceLeft
            THEN packFromForgetsFirst(Tail(dom), lengths, availableWidth,
                                      Append(rs, <<e>>), availableWidth)
            ELSE packFromForgetsFirst(Tail(dom), lengths, availableWidth,
                                      [rs EXCEPT ![Len(rs)] = Append(@, e)],
                                      spaceLeft - entryLength)

RECURSIVE packFromEager(_, _, _, _, _)
packFromEager(dom, lengths, availableWidth, rs, spaceLeft) ==
  IF dom = <<>> THEN rs
  ELSE LET e == Head(dom)
           entryLength == lengths[e]
       IN IF entryLength >= spaceLeft
            THEN packFromEager(Tail(dom), lengths, availableWidth,
                               Append(rs, <<e>>), availableWidth - entryLength)
            ELSE packFromEager(Tail(dom), lengths, availableWidth,
                               [rs EXCEPT ![Len(rs)] = Append(@, e)],
                               spaceLeft - entryLength)

RECURSIVE packFrom(_, _, _, _, _)
\* the forEach of packRows from entry i on: rs is this.rows (its last element
\* is currentRow) and spaceLeft the room left in currentRow
packFrom(dom, lengths, availableWidth, rs, spaceLeft) ==
  IF dom = <<>> THEN rs
  ELSE LET e == Head(dom)
           entryLength == lengths[e]
       IN IF entryLength > spaceLeft
            THEN packFrom(Tail(dom), lengths, availableWidth,
                          Append(rs, <<e>>), availableWidth - entryLength)
            ELSE packFrom(Tail(dom), lengths, availableWidth,
                          [rs EXCEPT ![Len(rs)] = Append(@, e)], spaceLeft - entryLength)

packRows(dom, lengths, availableWidth) ==
  packFrom(dom, lengths, availableWidth, << <<>> >>, availableWidth)

\* Math.floor((offeredHeight - 2 * padding) / textHeight), NaN replaced by 0;
\* +Infinity is returned as `ceiling`, which Math.min(_, rows.length) maps to
\* rows.length
rowsAvailable(offeredHeight, th, ceiling) ==
  IF th = 0
    THEN IF offeredHeight - 2 * padding > 0 THEN Num(ceiling)
         ELSE IF offeredHeight - 2 * padding < 0 THEN NegInfinity
         ELSE Num(0)
    ELSE Num((offeredHeight - 2 * padding) \div th)

\* Math.min(rowsAvailable, rows.length)
MathMin(x, n) ==
  IF x.kind = "number" THEN Num(Min(x.val, n)) ELSE x

\* x * th + 2 * padding
Height(x, th) ==
  IF x.kind = "number" THEN Num(x.val * th + 2 * padding)
  ELSE IF th = 0 THEN NaN ELSE x

\* offeredHeight < h
LessThan(offeredHeight, h) ==
  h.kind = "number" /\ offeredHeight < h.val

\* Array.prototype.slice(0, end)
slice0(xs, end) ==
  LET n == Len(xs)
      final == IF end.kind # "number" THEN 0
               ELSE IF end.val < 0 THEN Max(n + end.val, 0)
               ELSE Min(end.val, n)
  IN SubSeq(xs, 1, final)

LegendInit ==
  /\ domain \in Domains
  /\ listening = TRUE
  /\ anchored = TRUE
  /\ textHeight = 0
  /\ entryLengths = << >>
  /\ rows = << >>
  /\ previousOfferedWidth = << >>
  /\ numRowsToDraw = Num(0)
  /\ request = None
  /\ drawn = << >>
  /\ legendCall = "new"

\* _requestedSpace(offeredWidth, offeredHeight); font is what the text
\* measurer of sizeEntries reports
_requestedSpace(offeredWidth, offeredHeight, font) ==
  /\ anchored
  /\ LET resize == previousOfferedWidth # <<offeredWidth>>
         availableWidthForEntries == Max(0, offeredWidth - padding)
         th == IF resize THEN measure(font, "a").height ELSE textHeight
         lengths == IF resize
                      THEN sizeEntries(domain, font, availableWidthForEntries)
                      ELSE entryLengths
         rs == IF resize
                 THEN packRows(domain, lengths, availableWidthForEntries)
                 ELSE rows
         rowLengths == [i \in 1..Len(rs) |-> SumLengths(rs[i], lengths)]
         longestRowLength == IF rowLengths = <<>> THEN 0 ELSE MaxOf(rowLengths)
         desiredWidth == padding + longestRowLength
         n == MathMin(rowsAvailable(offeredHeight, th, Len(rs)), Len(rs))
         acceptableHeight == Height(n, th)
         desiredHeight == Height(Num(Len(rs)), th)
     IN /\ textHeight' = th
        /\ entryLengths' = lengths
        /\ rows' = rs
        /\ previousOfferedWidth' = <<offeredWidth>>
        /\ numRowsToDraw' = n
        /\ request' = [width |-> desiredWidth,
                       height |-> acceptableHeight,
                       wantsWidth |-> offeredWidth < desiredWidth,
                       wantsHeight |-> LessThan(offeredHeight, desiredHeight)]
  /\ legendCall' = "_requestedSpace"
  /\ UNCHANGED <<domain, listening, anchored, drawn>>

\* _doRender: one g.legend-row per row to draw, translated to
\* (0, i * textHeight + padding), holding one g.legend-entry per entry of the
\* row, translated to (xShift, 0)
_doRender ==
  /\ anchored
  /\ rows # << >>
  /\ LET rowsToDraw == slice0(rows, numRowsToDraw)
     IN drawn' = [i \in 1..Len(rowsToDraw) |->
                    [y |-> (i - 1) * textHeight + padding,
                     entries |-> [k \in 1..Len(rowsToDraw[i]) |->
                        [value |-> rowsToDraw[i][k],
                         x |-> padding + SumLengths(SubSeq(rowsToDraw[i], 1, k - 1),
                                                    entryLengths)]]]]
  /\ legendCall' = "_doRender"
  /\ UNCHANGED <<domain, listening, anchored, textHeight, entryLengths, rows,
                 previousOfferedWidth, numRowsToDraw, request>>

\* _invalidateLayout
_invalidateLayout ==
  /\ previousOfferedWidth' = << >>
  /\ legendCall' = "_invalidateLayout"
  /\ UNCHANGED <<domain, listening, anchored, textHeight, entryLengths, rows,
                 numRowsToDraw, request, drawn>>

\* the scale's domain changes; the scale broadcasts and the listener
\* registered by the constructor runs updateDomain
updateDomain(d) ==
  /\ d # domain
  /\ domain' = d
  /\ IF listening
       THEN /\ previousOfferedWidth' = << >>
            /\ legendCall' = "_invalidateLayout"
       ELSE UNCHANGED <<previousOfferedWidth, legendCall>>
  /\ UNCHANGED <<listening, anchored, textHeight, entryLengths, rows,
                 numRowsToDraw, request, drawn>>

\* remove(): the component is detached (it takes part in no further layout or
\* render pass) and stops listening to the scale
remove ==
  /\ anchored
  /\ anchored' = FALSE
  /\ listening' = FALSE
  /\ legendCall' = "remove"
  /\ UNCHANGED <<domain, textHeight, entryLengths, rows, previousOfferedWidth,
                 numRowsToDraw, request, drawn>>

\* the sizes the parent offers
OfferedWidths == {w \in 0..MaxOfferedWidth : w % padding \in {0, 2}}
OfferedHeights == MinOfferedHeight..MaxOfferedHeight

\* the domains reached by adding series to, or dropping the last series from,
\* a plot of the series a, bb, cccc
Series == <<"a", "bb", "cccc">>
SeriesDomains == {SubSeq(Series, 1, n) : n \in 0..Min(MaxDomainLen, Len(Series))}

RequestedSpace ==
  /\ \E w \in OfferedWidths, h \in OfferedHeights, font \in Fonts :
       _requestedSpace(w, h, font)
  /\ UNCHANGED <<dsVars, dragVars>>
DoRender == _doRender /\ UNCHANGED <<dsVars, dragVars>>
InvalidateLayout == _invalidateLayout /\ UNCHANGED <<dsVars, dragVars>>
DomainChange ==
  /\ \E d \in Domains : updateDomain(d)
  /\ UNCHANGED <<dsVars, dragVars>>
SeriesChange ==
  /\ \E d \in SeriesDomains : updateDomain(d)
  /\ UNCHANGED <<dsVars, dragVars>>
Remove == remove /\ UNCHANGED <<dsVars, dragVars>>

\* layout only
LegendNext == RequestedSpace \/ InvalidateLayout \/ DomainChange \/ Remove

\* layout and rendering of a plot whose series come and go
LegendRenderNext == RequestedSpace \/ DoRender \/ InvalidateLayout \/ SeriesChange \/ Remove

\* ------------------------------------------------------------------------
\* XDragBoxLayer, as exercised by the tests: the component is rendered into
\* an SVG of width MaxX whose height can change between redraws
\* ------------------------------------------------------------------------
Point(x, y) == [x |-> x, y |-> y]
Xs == 0..MaxX
Ys == 0..MaxY
Heights == 1..MaxY

\* the box a bounds() setter stores: the x edges as supplied (left edge
\* first), the y edges pinned to the component
setBoundsKeepsY(topLeft, bottomRight) ==
  [topLeft |-> Point(Min(topLeft.x, bottomRight.x), Min(topLeft.y, bottomRight.y)),
   bottomRight |-> Point(Max(topLeft.x, bottomRight.x), Max(topLeft.y, bottomRight.y))]

setBounds(topLeft, bottomRight) ==
  [topLeft |-> Point(Min(topLeft.x, bottomRight.x), 0),
   bottomRight |-> Point(Max(topLeft.x, bottomRight.x), dblHeight)]

DragBoxInit ==
  /\ dblHeight \in Heights
  /\ boxBounds = [topLeft |-> Point(0, 0), bottomRight |-> Point(0, dblHeight)]
  /\ isResizable = FALSE
  /\ isMovable = FALSE
  /\ dblCall = [op |-> "renderTo"]

\* bounds({topLeft, bottomRight})
bounds(topLeft, bottomRight) ==
  /\ boxBounds' = setBounds(topLeft, bottomRight)
  /\ dblCall' = [op |-> "bounds", topLeft |-> topLeft, bottomRight |-> bottomRight]
  /\ UNCHANGED <<dblHeight, isResizable, isMovable>>

\* resizable(flag) / movable(flag)
resizable(flag) ==
  /\ isResizable' = flag
  /\ isResizable # flag
  /\ dblCall' = [op |-> "resizable"]
  /\ UNCHANGED <<boxBounds, dblHeight, isMovable>>

movable(flag) ==
  /\ isMovable' = flag
  /\ isMovable # flag
  /\ dblCall' = [op |-> "movable"]
  /\ UNCHANGED <<boxBounds, dblHeight, isResizable>>

\* a drag that starts on the left or right edge of a resizable box and ends
\* at `to`: the grabbed edge follows the pointer in x
resizeDrag(edge, to) ==
  /\ isResizable
  /\ to.y <= dblHeight
  /\ boxBounds' =
       IF edge = "left"
         THEN setBounds(Point(to.x, to.y), boxBounds.bottomRight)
         ELSE setBounds(boxBounds.topLeft, Point(to.x, to.y))
  /\ dblCall' = [op |-> "resizeDrag", edge |-> edge, to |-> to]
  /\ UNCHANGED <<dblHeight, isResizable, isMovable>>

\* a drag that starts inside a movable box and travels (dx, dy) without
\* leaving the component
moveDrag(dx, dy) ==
  /\ isMovable
  /\ boxBounds.topLeft.x + dx \in Xs
  /\ boxBounds.bottomRight.x + dx \in Xs
  /\ boxBounds' = setBounds(Point(boxBounds.topLeft.x + dx, boxBounds.topLeft.y + dy),
                            Point(boxBounds.bottomRight.x + dx, boxBounds.bottomRight.y + dy))
  /\ dblCall' = [op |-> "moveDrag", dx |-> dx, dy |-> dy]
  /\ UNCHANGED <<dblHeight, isResizable, isMovable>>

\* the SVG's height attribute is changed to h, then redraw()
redraw(h) ==
  /\ dblHeight' = h
  /\ boxBounds' = [topLeft |-> Point(boxBounds.topLeft.x, 0),
                   bottomRight |-> Point(boxBounds.bottomRight.x, h)]
  /\ dblCall' = [op |-> "redraw", height |-> h]
  /\ UNCHANGED <<isResizable, isMovable>>

Bounds ==
  /\ \E x1, x2 \in Xs, y1, y2 \in Ys : bounds(Point(x1, y1), Point(x2, y2))
  /\ UNCHANGED <<dsVars, legendVars>>
Resizable ==
  /\ \E flag \in BOOLEAN : resizable(flag)
  /\ UNCHANGED <<dsVars, legendVars>>
Movable ==
  /\ \E flag \in BOOLEAN : movable(flag)
  /\ UNCHANGED <<dsVars, legendVars>>
ResizeDrag ==
  /\ \E edge \in {"left", "right"}, x \in Xs, y \in Ys : resizeDrag(edge, Point(x, y))
  /\ UNCHANGED <<dsVars, legendVars>>
MoveDrag ==
  /\ \E dx \in -MaxX..MaxX, dy \in -MaxY..MaxY : moveDrag(dx, dy)
  /\ UNCHANGED <<dsVars, legendVars>>
Redraw ==
  /\ \E h \in Heights : redraw(h)
  /\ UNCHANGED <<dsVars, legendVars>>

DragBoxNext == Bounds \/ Resizable \/ Movable \/ ResizeDrag \/ MoveDrag \/ Redraw

\* ------------------------------------------------------------------------
\* Specifications: each component on its own, the others left as constructed
\* ------------------------------------------------------------------------
vars == <<dsVars, legendVars, dragVars>>

InitDataSource ==
  /\ DataSourceInit /\ LegendInit /\ DragBoxInit
  /\ domain = << >> /\ dblHeight = 1

InitLegend ==
  /\ DataSourceInit /\ LegendInit /\ DragBoxInit
  /\ _data = "[]" /\ _metadata = "{}" /\ dblHeight = 1

InitLegendRender ==
  /\ DataSourceInit /\ LegendInit /\ DragBoxInit
  /\ _data = "[]" /\ _metadata = "{}" /\ dblHeight = 1
  /\ domain \in SeriesDomains

InitDragBox ==
  /\ DataSourceInit /\ LegendInit /\ DragBoxInit
  /\ _data = "[]" /\ _metadata = "{}" /\ domain = << >>

SpecDataSource == InitDataSource /\ [][DataSourceNext]_vars
SpecLegend == InitLegend /\ [][LegendNext]_vars
SpecLegendRender == InitLegendRender /\ [][LegendRenderNext]_vars
SpecDragBox == InitDragBox /\ [][DragBoxNext]_vars

\* ------------------------------------------------------------------------
\* C1: a setter call data(d) / metadata(m) with a non-null argument performs
\* exactly one broadcast, made after the new value is stored (a registered
\* listener reading data()/metadata() during it sees the new value), and
\* returns the DataSource; a getter call performs no broadcast.
\* ------------------------------------------------------------------------
C1_NotifyOnMutation ==
  [][ IF listeners' # listeners
        THEN broadcasts' = broadcasts
        ELSE IF dsCall'.op \in {"data", "metadata"} /\ ~IsNullish(dsCall'.arg)
               THEN /\ broadcasts' = broadcasts + 1
                    /\ ret' = This
                    /\ dsCall'.op = "data" => _data' = dsCall'.arg
                    /\ dsCall'.op = "metadata" => _metadata' = dsCall'.arg
                    /\ \A l \in listeners :
                         heard'[l] = [data |-> _data', metadata |-> _metadata']
               ELSE /\ broadcasts' = broadcasts
                    /\ heard' = heard
    ]_dsVars

C1_Witness ==
  /\ broadcasts = 2
  /\ dsCall.op = "data" /\ dsCall.arg = "[1,2]"
  /\ ret = This
  /\ listeners = {"l1"}
  /\ heard["l1"] = [data |-> "[1,2]", metadata |-> _metadata]

\* ------------------------------------------------------------------------
\* C2: data() returns the argument of the most recent data(d) setter call
\* (the constructor's data if there was none), metadata() likewise; data(d)
\* never changes the metadata and metadata(m) never changes the data.
\* ------------------------------------------------------------------------
Latest(field) == IF lastSet[field] = None THEN ctorArgs[field] ELSE lastSet[field]

C2_LastWriteWins ==
  /\ [](/\ _data = Latest("data")
        /\ _metadata = Latest("metadata")
        /\ (dsCall.op = "data" /\ IsNullish(dsCall.arg)) => ret = Latest("data")
        /\ (dsCall.op = "metadata" /\ IsNullish(dsCall.arg)) => ret = Latest("metadata"))
  /\ [][/\ dsCall'.op = "data" => _metadata' = _metadata
        /\ dsCall'.op = "metadata" => _data' = _data]_dsVars

C2_Witness ==
  /\ lastSet.data = "[1]"
  /\ lastSet.metadata = "{a:1}"
  /\ ctorArgs.data = "[1,2]"
  /\ dsCall = [op |-> "data", arg |-> Undefined]
  /\ ret = "[1]"

\* ------------------------------------------------------------------------
\* HorizontalLegend: the layout is current when no invalidation followed the
\* last _requestedSpace(offeredWidth, _); previousOfferedWidth then holds
\* offeredWidth
\* ------------------------------------------------------------------------
LayoutCurrent == anchored /\ previousOfferedWidth # << >>
offeredWidth == previousOfferedWidth[1]
availableWidth == Max(0, offeredWidth - padding)

RECURSIVE Flatten(_)
Flatten(rs) == IF rs = << >> THEN << >> ELSE Head(rs) \o Flatten(Tail(rs))

\* ------------------------------------------------------------------------
\* C3: row-packing is greedy over the domain in order: an entry joins the
\* current row unless the row's accumulated width plus the entry's width
\* exceeds the available width; then, and only then, it starts a new row; no
\* entry goes back to an earlier row.
\* ------------------------------------------------------------------------
C3_GreedyPacking ==
  LayoutCurrent =>
    /\ Flatten(rows) = domain
    /\ \A i \in 1..Len(rows) : \A k \in 2..Len(rows[i]) :
         SumLengths(SubSeq(rows[i], 1, k - 1), entryLengths) + entryLengths[rows[i][k]]
           <= availableWidth
    /\ \A i \in 2..Len(rows) :
         /\ rows[i] # << >>
         /\ SumLengths(rows[i - 1], entryLengths) + entryLengths[rows[i][1]]
              > availableWidth

C3_Witness ==
  /\ LayoutCurrent
  /\ legendCall = "_requestedSpace"
  /\ rows = << <<"a", "bb">>, <<"cccc">> >>
  /\ SumLengths(rows[1], entryLengths) = availableWidth

\* ------------------------------------------------------------------------
\* C4: after _requestedSpace(offeredWidth, h) every entry of the domain has
\* entryLengths[e] <= max(0, offeredWidth - padding).
\* ------------------------------------------------------------------------
C4_EntryFitsAvailableWidth ==
  LayoutCurrent =>
    \A e \in Range(domain) :
      /\ e \in DOMAIN entryLengths
      /\ entryLengths[e] <= Max(0, offeredWidth - padding)

C4_Witness ==
  /\ LayoutCurrent
  /\ legendCall = "_requestedSpace"
  /\ domain = <<"cccc", "a">>
  /\ textHeight = 1
  /\ offeredWidth = 12
  /\ entryLengths["cccc"] = 7
  /\ entryLengths["a"] = 7

\* ------------------------------------------------------------------------
\* C5: after packing, the rows concatenated are the domain, and _doRender
\* draws the first numRowsToDraw rows in that order, the entries of each row
\* at strictly increasing x offsets starting at padding.
\* ------------------------------------------------------------------------
C5_DisplayedInDomainOrder ==
  LayoutCurrent =>
    /\ Flatten(rows) = domain
    /\ legendCall = "_doRender" =>
         /\ numRowsToDraw = Num(Len(drawn))
         /\ \A i \in 1..Len(drawn) :
              /\ i <= Len(rows)
              /\ [k \in 1..Len(drawn[i].entries) |-> drawn[i].entries[k].value] = rows[i]
              /\ \A k \in 1..Len(drawn[i].entries) :
                   /\ k = 1 => drawn[i].entries[k].x = padding
                   /\ k > 1 => drawn[i].entries[k].x > drawn[i].entries[k - 1].x

\* ------------------------------------------------------------------------
\* C6: for an empty domain _requestedSpace followed by _doRender leaves
\* exactly one empty row, returns the width padding and draws no entry; for
\* a non-empty domain no row is empty.
\* ------------------------------------------------------------------------
C6_EmptyDomain ==
  LayoutCurrent =>
    /\ domain = << >> =>
         /\ rows = << << >> >>
         /\ request.width = padding
         /\ legendCall = "_doRender" => \A i \in 1..Len(drawn) : drawn[i].entries = << >>
    /\ domain # << >> => \A i \in 1..Len(rows) : rows[i] # << >>

C6_Witness ==
  /\ LayoutCurrent
  /\ domain = << >>
  /\ legendCall = "_doRender"
  /\ drawn = << [y |-> padding, entries |-> << >>] >>

\* ------------------------------------------------------------------------
\* C8: after _requestedSpace(offeredWidth, h) the entry widths of every row
\* sum to at most max(0, offeredWidth - padding); the returned width does not
\* exceed offeredWidth when offeredWidth >= padding, and wantsWidth is true
\* only when offeredWidth < padding.
\* ------------------------------------------------------------------------
C8_RowsFitOfferedWidth ==
  LayoutCurrent =>
    /\ \A i \in 1..Len(rows) : SumLengths(rows[i], entryLengths) <= availableWidth
    /\ offeredWidth >= padding => request.width <= offeredWidth
    /\ request.wantsWidth => offeredWidth < padding

C8_Witness ==
  /\ LayoutCurrent
  /\ legendCall = "_requestedSpace"
  /\ Len(rows) = 2
  /\ request.width = offeredWidth
  /\ ~request.wantsWidth

\* ------------------------------------------------------------------------
\* C7: the box of an XDragBoxLayer spans the full height of the component:
\* topLeft.y = 0 and bottomRight.y = height() after any bounds() call, resize
\* drag, move drag or redraw; the y of the supplied bounds and of the drag is
\* ignored, the x edges are set, resized or shifted as requested and a redraw
\* leaves them unchanged.
\* ------------------------------------------------------------------------
C7_FullHeight ==
  /\ [](boxBounds.topLeft.y = 0 /\ boxBounds.bottomRight.y = dblHeight)
  /\ [][ /\ dblCall'.op = "bounds" =>
              /\ boxBounds'.topLeft.x = Min(dblCall'.topLeft.x, dblCall'.bottomRight.x)
              /\ boxBounds'.bottomRight.x = Max(dblCall'.topLeft.x, dblCall'.bottomRight.x)
         /\ dblCall'.op = "moveDrag" =>
              /\ boxBounds'.topLeft.x = boxBounds.topLeft.x + dblCall'.dx
              /\ boxBounds'.bottomRight.x = boxBounds.bottomRight.x + dblCall'.dx
         /\ dblCall'.op = "resizeDrag" =>
              {boxBounds'.topLeft.x, boxBounds'.bottomRight.x} =
                IF dblCall'.edge = "left"
                  THEN {dblCall'.to.x, boxBounds.bottomRight.x}
                  ELSE {boxBounds.topLeft.x, dblCall'.to.x}
         /\ dblCall'.op = "redraw" =>
              /\ boxBounds'.topLeft.x = boxBounds.topLeft.x
              /\ boxBounds'.bottomRight.x = boxBounds.bottomRight.x
       ]_dragVars

C7_Witness ==
  /\ dblCall = [op |-> "moveDrag", dx |-> 1, dy |-> 1]
  /\ dblHeight = 2
  /\ boxBounds = [topLeft |-> Point(1, 0), bottomRight |-> Point(3, 2)]
====
